---- MODULE Spec2Model ----
(***************************************************************************)
(* media-archive: the MediaArchive content-addressed store (store_file,    *)
(* deploy_file) over a POSIX file system.                                  *)
(*                                                                         *)
(* Text is a sequence of one-character strings, a path component is text,  *)
(* an absolute path is a sequence of components, and the file system maps  *)
(* physical absolute paths to directory entries; regular files share an    *)
(* inode table so that hard links are the same file.                       *)
(***************************************************************************)
EXTENDS Integers, Sequences, FiniteSets, TLC

VARIABLES
    fs,            \* physical absolute path -> directory entry
    inodes,        \* sequence of [data, readonly], indexed by inode number
    archive_path,  \* MediaArchive.archive_path
    deploy_path,   \* MediaArchive.deploy_path (None in a bare archive)
    last,          \* the last call made on the archive and its result
    ncalls,        \* number of calls made so far
    procs          \* the calls in progress in concurrent callers

vars == <<fs, inodes, archive_path, deploy_path, last, ncalls, procs>>

(***************************************************************************)
(* Bounds of the model.                                                    *)
(***************************************************************************)
MaxCalls == 3       \* store_file / deploy_file calls in one behaviour
MaxLinkDepth == 2   \* symbolic links followed in one path resolution
MaxExcess == 4      \* bytes by which a hash text parsed exceeds the hash length

(***************************************************************************)
(* Program constants.                                                      *)
(***************************************************************************)
MEDIA_ARCHIVE_DIRECTORY ==
    <<".", "m", "e", "d", "i", "a", "-", "a", "r", "c", "h", "i", "v", "e">>
STORE_DIRECTORY == <<"s", "t", "o", "r", "e">>
SUBDIR_COUNT == 2
SUBDIR_NAME_LEN == 2
OUT_LEN == 32

\* Option<PathBuf>: None, or Some(p)
None == <<>>
Some(p) == <<p>>

SEP == "/"
CurDir == <<".">>
ParentDir == <<".", ".">>

HexDigits ==
    <<"0", "1", "2", "3", "4", "5", "6", "7",
      "8", "9", "a", "b", "c", "d", "e", "f">>

(***************************************************************************)
(* blake3::Hash.  A hash is OUT_LEN bytes.  The digest is tabulated for    *)
(* the file content the model uses: "test data", with TEST_DATA_HASH as in  *)
(* the tests.  ZERO_HASH is the hash the tests deploy without storing.     *)
(***************************************************************************)
TEST_DATA == "test data"

TEST_DATA_HASH ==
    <<106, 149, 53, 129, 214, 13, 190, 188, 151, 73, 181, 109, 35, 131, 39, 127,
      176, 43, 88, 210, 96, 180, 204, 246, 241, 25, 16, 143, 160, 241, 212, 239>>

ZERO_HASH == [i \in 1..OUT_LEN |-> 0]

blake3(data) ==
    CASE data = TEST_DATA -> TEST_DATA_HASH

\* Hash::to_hex: two lowercase hex digits per byte, high nibble first
to_hex(hash) ==
    [i \in 1..(2 * Len(hash)) |->
        IF i % 2 = 1 THEN HexDigits[(hash[(i + 1) \div 2] \div 16) + 1]
        ELSE HexDigits[(hash[i \div 2] % 16) + 1]]

(***************************************************************************)
(* std::path::PathBuf on absolute paths.                                   *)
(***************************************************************************)
push(p, c) == Append(p, c)

pop(p) == IF p = <<>> THEN p ELSE SubSeq(p, 1, Len(p) - 1)

parent(p) == SubSeq(p, 1, Len(p) - 1)

starts_with(p, base) ==
    /\ Len(base) <= Len(p)
    /\ SubSeq(p, 1, Len(base)) = base

(***************************************************************************)
(* relative_path::RelativePath: the components of a path text (separators  *)
(* split it, empty components are skipped), its logical resolution against  *)
(* a base, and the relative path from one absolute path to another.        *)
(***************************************************************************)
separators(text) == {j \in 1..Len(text) : text[j] = SEP}

\* the end of the segment that starts at position i: it runs up to the next
\* separator, or to the end of the text
segment_end(text, seps, i) ==
    LET after == {j \in seps : j >= i} IN
    IF after = {} THEN Len(text)
    ELSE (CHOOSE j \in after : \A k \in after : j <= k) - 1

RECURSIVE split(_, _, _)
split(text, seps, i) ==
    IF i > Len(text) THEN <<>>
    ELSE LET e == segment_end(text, seps, i) IN
         IF e < i THEN split(text, seps, i + 1)
         ELSE <<SubSeq(text, i, e)>> \o split(text, seps, e + 2)

components(text) == split(text, separators(text), 1)

RECURSIVE logical(_, _)
logical(p, comps) ==
    IF comps = <<>> THEN p
    ELSE LET c == Head(comps) IN
         IF c = CurDir THEN logical(p, Tail(comps))
         ELSE IF c = ParentDir THEN logical(pop(p), Tail(comps))
         ELSE logical(push(p, c), Tail(comps))

\* mutant: RelativePath::to_path, which appends the components as they are
to_path(text, base) == base \o components(text)

to_logical_path(text, base) == logical(base, components(text))

RECURSIVE common_len(_, _)
common_len(a, b) ==
    IF a = <<>> \/ b = <<>> \/ Head(a) # Head(b) THEN 0
    ELSE 1 + common_len(Tail(a), Tail(b))

\* mutant: the steps up from the base to the common ancestor are left out
relative_to_below_only(path, base) ==
    SubSeq(path, common_len(path, base) + 1, Len(path))

relative_to(path, base) ==
    LET k == common_len(path, base) IN
    [i \in 1..(Len(base) - k) |-> ParentDir] \o SubSeq(path, k + 1, Len(path))

(***************************************************************************)
(* MediaArchive::get_path_of_stored_file                                   *)
(***************************************************************************)
RECURSIVE subdirs(_, _, _)
subdirs(path, hex, k) ==
    IF k > SUBDIR_COUNT THEN path
    ELSE subdirs(push(path, SubSeq(hex, (k - 1) * SUBDIR_NAME_LEN + 1,
                                        k * SUBDIR_NAME_LEN)),
                 hex, k + 1)

\* mutant: the file name is the hash without the part used for the directories
get_path_of_stored_file_rest(archive, hash) ==
    LET hex == to_hex(hash) IN
    push(subdirs(push(archive, STORE_DIRECTORY), hex, 1),
         SubSeq(hex, SUBDIR_COUNT * SUBDIR_NAME_LEN + 1, Len(hex)))

get_path_of_stored_file(archive, hash) ==
    LET hex == to_hex(hash) IN
    push(subdirs(push(archive, STORE_DIRECTORY), hex, 1), hex)

(***************************************************************************)
(* file_hash::FileHash.  A hash text is a sequence of bytes: an ASCII      *)
(* character is a one-character string, a byte of a multi-byte character   *)
(* is written as its two hex digits ("E3").                                *)
(***************************************************************************)
HASH_HEX_LEN == OUT_LEN * 2

UpperCase == <<"A", "B", "C", "D", "E", "F", "G">>
LowerCase == <<"a", "b", "c", "d", "e", "f", "g">>

\* u8::to_ascii_lowercase, on the letters the model uses
to_ascii_lowercase(ch) ==
    IF \E i \in DOMAIN UpperCase : UpperCase[i] = ch
    THEN LowerCase[CHOOSE i \in DOMAIN UpperCase : UpperCase[i] = ch]
    ELSE ch

make_ascii_lowercase(text) == [i \in DOMAIN text |-> to_ascii_lowercase(text[i])]

is_ascii_hexdigit(ch) ==
    \/ \E i \in DOMAIN HexDigits : HexDigits[i] = ch
    \/ \E i \in 1..6 : UpperCase[i] = ch

\* prae ensure: hash.len() == HASH_HEX_LEN && all bytes are hex digits
ensure(text) ==
    Len(text) = HASH_HEX_LEN /\ \A i \in DOMAIN text : is_ascii_hexdigit(text[i])

ParseResult(r, len, text) == [res |-> r, len |-> len, value |-> text]

\* mutant: the length is tested first, whichever way it is wrong
from_str_length_first(value) ==
    IF Len(value) # HASH_HEX_LEN THEN ParseResult("TooLarge", Len(value), <<>>)
    ELSE IF ensure(make_ascii_lowercase(value))
         THEN ParseResult("Ok", 0, make_ascii_lowercase(value))
         ELSE ParseResult("Other", 0, <<>>)

\* FileHash::from_str: ArrayString::from fails only when the text does not
\* fit, then FileHash::new adjusts and validates
from_str(value) ==
    IF Len(value) > HASH_HEX_LEN THEN ParseResult("TooLarge", Len(value), <<>>)
    ELSE IF ensure(make_ascii_lowercase(value))
         THEN ParseResult("Ok", 0, make_ascii_lowercase(value))
         ELSE ParseResult("Other", 0, <<>>)

(***************************************************************************)
(* The file system.  An entry is a directory, a regular file (a link to    *)
(* an inode) or a symbolic link (its text: absolute or relative, and its   *)
(* components).                                                            *)
(***************************************************************************)
Dir == [kind |-> "dir", ino |-> 0, abs |-> FALSE, link |-> <<>>]
File(i) == [kind |-> "file", ino |-> i, abs |-> FALSE, link |-> <<>>]
Link(a, comps) == [kind |-> "symlink", ino |-> 0, abs |-> a, link |-> comps]
NoEntry == [kind |-> "none", ino |-> 0, abs |-> FALSE, link |-> <<>>]

IoOk(f, n) == [ok |-> TRUE, err |-> "", fs |-> f, inodes |-> n]
IoErr(e, f, n) == [ok |-> FALSE, err |-> e, fs |-> f, inodes |-> n]

\* Path resolution as the kernel does it: every directory on the way must
\* exist and be a directory, ".." is the parent of the directory reached, and
\* a symbolic link is followed unless it is the last component and follow is
\* FALSE.  The path found need not exist.
RECURSIVE walk(_, _, _, _, _)
walk(f, cur, comps, follow, fuel) ==
    IF comps = <<>> THEN [ok |-> TRUE, err |-> "", path |-> cur]
    ELSE IF cur \notin DOMAIN f THEN [ok |-> FALSE, err |-> "NotFound", path |-> <<>>]
    ELSE IF f[cur].kind # "dir"
         THEN [ok |-> FALSE, err |-> "NotADirectory", path |-> <<>>]
    ELSE LET c == Head(comps)
             rest == Tail(comps)
             nxt == Append(cur, c)
         IN  IF c = CurDir THEN walk(f, cur, rest, follow, fuel)
             ELSE IF c = ParentDir THEN walk(f, pop(cur), rest, follow, fuel)
             ELSE IF /\ nxt \in DOMAIN f
                     /\ f[nxt].kind = "symlink"
                     /\ (rest # <<>> \/ follow)
                  THEN IF fuel = 0
                       THEN [ok |-> FALSE, err |-> "Loop", path |-> <<>>]
                       ELSE walk(f, IF f[nxt].abs THEN <<>> ELSE cur,
                                 f[nxt].link \o rest, follow, fuel - 1)
                  ELSE walk(f, nxt, rest, follow, fuel)

resolve(f, p, follow) == walk(f, <<>>, p, follow, MaxLinkDepth)

\* Path::metadata (follow) and Path::symlink_metadata (no follow)
stat(f, p, follow) ==
    LET w == resolve(f, p, follow) IN
    IF ~w.ok THEN [ok |-> FALSE, err |-> w.err, entry |-> NoEntry]
    ELSE IF w.path \notin DOMAIN f
         THEN [ok |-> FALSE, err |-> "NotFound", entry |-> NoEntry]
         ELSE [ok |-> TRUE, err |-> "", entry |-> f[w.path]]

\* mutant: the lookup through links does not follow the last link
metadata_no_follow(f, p) == stat(f, p, FALSE)

metadata(f, p) == stat(f, p, TRUE)

\* mutant: the lookup of the entry itself follows links
symlink_metadata_follow(f, p) == stat(f, p, TRUE)

symlink_metadata(f, p) == stat(f, p, FALSE)

\* Path::exists, Path::is_dir: both follow links and are false on any error
exists(f, p) == metadata(f, p).ok
is_dir(f, p) == metadata(f, p).ok /\ metadata(f, p).entry.kind = "dir"

mkdir(f, n, p) ==
    LET w == resolve(f, p, FALSE) IN
    IF ~w.ok THEN IoErr(w.err, f, n)
    ELSE IF w.path \in DOMAIN f THEN IoErr("AlreadyExists", f, n)
    ELSE IoOk(f @@ (w.path :> Dir), n)

\* mutant: a directory that is already there is an error
RECURSIVE create_dir_all_new(_, _, _)
create_dir_all_new(f, n, p) ==
    LET m == mkdir(f, n, p) IN
    IF m.ok THEN m
    ELSE IF m.err = "NotFound" /\ p # <<>>
         THEN LET r == create_dir_all_new(f, n, parent(p)) IN
              IF ~r.ok THEN r ELSE mkdir(r.fs, n, p)
         ELSE m

\* std::fs::create_dir_all
RECURSIVE create_dir_all(_, _, _)
create_dir_all(f, n, p) ==
    LET m == mkdir(f, n, p) IN
    IF m.ok THEN m
    ELSE IF m.err = "NotFound"
         THEN IF p = <<>> THEN m
              ELSE LET r == create_dir_all(f, n, parent(p)) IN
                   IF ~r.ok THEN r
                   ELSE LET m2 == mkdir(r.fs, n, p) IN
                        IF m2.ok \/ is_dir(r.fs, p)
                        THEN IoOk(m2.fs, n)
                        ELSE IoErr(m2.err, r.fs, n)
         ELSE IF is_dir(f, p) THEN IoOk(f, n) ELSE m

\* reflink_copy::reflink_or_copy on a file system without reflinks, where it
\* is std::fs::copy: the source must be a regular file, the destination is
\* created, or opened for writing and truncated, and takes the source's
\* bytes and permissions.
copy(f, n, from, to) ==
    LET s == metadata(f, from)
        w == resolve(f, to, TRUE)
    IN  IF ~s.ok THEN IoErr(s.err, f, n)
        ELSE IF s.entry.kind # "file" THEN IoErr("InvalidInput", f, n)
        ELSE IF ~w.ok THEN IoErr(w.err, f, n)
        ELSE IF w.path \notin DOMAIN f
             THEN IoOk(f @@ (w.path :> File(Len(n) + 1)), Append(n, n[s.entry.ino]))
        ELSE IF f[w.path].kind # "file" THEN IoErr("IsADirectory", f, n)
        ELSE IF n[f[w.path].ino].readonly THEN IoErr("PermissionDenied", f, n)
        ELSE IoOk(f, [n EXCEPT ![f[w.path].ino] = n[s.entry.ino]])

\* std::fs::rename: atomically replaces what is at the destination
rename(f, n, from, to) ==
    LET s == resolve(f, from, FALSE)
        w == resolve(f, to, FALSE)
    IN  IF ~s.ok THEN IoErr(s.err, f, n)
        ELSE IF s.path \notin DOMAIN f THEN IoErr("NotFound", f, n)
        ELSE IF ~w.ok THEN IoErr(w.err, f, n)
        ELSE IF w.path \in DOMAIN f /\ f[w.path].kind = "dir"
             THEN IoErr("IsADirectory", f, n)
        ELSE IF w.path = s.path \/ (w.path \in DOMAIN f /\ f[w.path] = f[s.path])
             THEN IoOk(f, n)
        ELSE IoOk([q \in (DOMAIN f \ {s.path}) \cup {w.path} |->
                      IF q = w.path THEN f[s.path] ELSE f[q]], n)

\* std::fs::hard_link
hard_link(f, n, from, to) ==
    LET s == resolve(f, from, FALSE)
        w == resolve(f, to, FALSE)
    IN  IF ~s.ok THEN IoErr(s.err, f, n)
        ELSE IF s.path \notin DOMAIN f THEN IoErr("NotFound", f, n)
        ELSE IF f[s.path].kind = "dir" THEN IoErr("PermissionDenied", f, n)
        ELSE IF ~w.ok THEN IoErr(w.err, f, n)
        ELSE IF w.path \in DOMAIN f THEN IoErr("AlreadyExists", f, n)
        ELSE IoOk(f @@ (w.path :> f[s.path]), n)

\* std::os::unix::fs::symlink
symlink(f, n, a, comps, to) ==
    LET w == resolve(f, to, FALSE) IN
    IF ~w.ok THEN IoErr(w.err, f, n)
    ELSE IF w.path \in DOMAIN f THEN IoErr("AlreadyExists", f, n)
    ELSE IoOk(f @@ (w.path :> Link(a, comps)), n)

\* The bytes read through a path, links followed; NoData when it is no file.
NoData == "<no data>"
read(f, n, p) ==
    LET s == metadata(f, p) IN
    IF s.ok /\ s.entry.kind = "file" THEN n[s.entry.ino].data ELSE NoData

set_readonly(n, i) == [n EXCEPT ![i].readonly = TRUE]

(***************************************************************************)
(* MediaArchive::open                                                      *)
(***************************************************************************)
open_archive_path(path, disk_structure) ==
    IF disk_structure = "Bare" THEN path ELSE push(path, MEDIA_ARCHIVE_DIRECTORY)

\* mutant: a bare archive is given a deploy path as well
open_deploy_path_always(path, disk_structure) == Some(path)

open_deploy_path(path, disk_structure) ==
    IF disk_structure = "Bare" THEN None ELSE Some(path)

(***************************************************************************)
(* MediaArchive::store_file.  fault names the file system call of this     *)
(* call that the environment makes fail with an I/O error ("none": none).  *)
(* The result is the Result returned (res, with the hash of Ok and of      *)
(* AlreadyExists) and the file system the call leaves.                     *)
(***************************************************************************)
StoreResult(r, h, f, n) == [res |-> r, hash |-> h, fs |-> f, inodes |-> n]

NoHash == <<>>

\* mutant: the stored object is left as it was written
store_harden_skip(f, n, target, fault) == n

store_harden(f, n, target, fault) ==
    LET m == metadata(f, target) IN
    IF m.ok /\ m.entry.kind = "file" /\ fault # "set_permissions"
    THEN set_readonly(n, m.entry.ino)
    ELSE n

\* mutant: Move stores by copying, like Copy
store_materialize_copy_only(f, n, path, target, method, fault) ==
    IF fault = "store" THEN IoErr("Other", f, n)
    ELSE copy(f, n, path, target)

store_materialize(f, n, path, target, method, fault) ==
    IF fault = "store" THEN IoErr("Other", f, n)
    ELSE IF method = "Copy" THEN copy(f, n, path, target)
    ELSE rename(f, n, path, target)

\* mutant: a failure to mark the object read-only fails the call
store_finish_strict(f, n, hash, target, fault) ==
    IF fault = "set_permissions" THEN StoreResult("Store", NoHash, f, n)
    ELSE StoreResult("Ok", hash, f, store_harden(f, n, target, fault))

\* the read-only marking, which can only warn, and the Ok that follows it
store_finish(f, n, hash, target, fault) ==
    StoreResult("Ok", hash, f, store_harden(f, n, target, fault))

\* mutant: the deduplication check never finds the object
store_exists_check_never(f, target) == FALSE

store_exists_check(f, target) == exists(f, target)

store_file(f, n, archive, path, method, fault) ==
    LET lmd == symlink_metadata(f, path)
        md == metadata(f, path)
    IN
    IF ~lmd.ok THEN StoreResult("Metadata", NoHash, f, n)
    ELSE IF lmd.entry.kind = "dir" THEN StoreResult("IsDirectory", NoHash, f, n)
    ELSE IF lmd.entry.kind = "symlink" /\ method = "Move"
         THEN StoreResult("IsSymlink", NoHash, f, n)
    ELSE IF lmd.entry.kind = "symlink" /\ ~md.ok
         THEN StoreResult("Metadata", NoHash, f, n)
    ELSE IF lmd.entry.kind = "symlink" /\ md.entry.kind = "dir"
         THEN StoreResult("IsDirectory", NoHash, f, n)
    ELSE IF fault = "open" \/ ~md.ok THEN StoreResult("Open", NoHash, f, n)
    ELSE IF fault = "read" \/ md.entry.kind # "file"
         THEN StoreResult("Read", NoHash, f, n)
    ELSE
    LET hash == blake3(read(f, n, path))
        target_path == get_path_of_stored_file(archive, hash)
    IN
    IF store_exists_check(f, target_path)
    THEN StoreResult("AlreadyExists", hash, f, n)
    ELSE
    LET d == IF fault = "create_dir_all" THEN IoErr("Other", f, n)
             ELSE create_dir_all(f, n, parent(target_path))
    IN
    IF ~d.ok THEN StoreResult("CreateParentDir", NoHash, d.fs, d.inodes)
    ELSE
    LET s == store_materialize(d.fs, d.inodes, path, target_path, method, fault) IN
    IF ~s.ok THEN StoreResult("Store", NoHash, s.fs, s.inodes)
    ELSE store_finish(s.fs, s.inodes, hash, target_path, fault)

(***************************************************************************)
(* MediaArchive::deploy_file, with fault as for store_file.                *)
(***************************************************************************)
DeployResult(r, f, n) == [res |-> r, fs |-> f, inodes |-> n]

\* mutant: the prefix test is left out
deploy_confined_not_root(full_target_path, deploy) ==
    full_target_path # deploy

\* mutant: the deploy root itself is accepted
deploy_confined_prefix_only(full_target_path, deploy) ==
    starts_with(full_target_path, deploy)

deploy_confined(full_target_path, deploy) ==
    starts_with(full_target_path, deploy) /\ full_target_path # deploy

\* mutant: the target is looked up through symbolic links
deploy_target_check_follow(f, target_path, fault) ==
    IF fault = "target_metadata"
    THEN [ok |-> FALSE, err |-> "Other", entry |-> NoEntry]
    ELSE metadata(f, target_path)

deploy_target_check(f, target_path, fault) ==
    IF fault = "target_metadata"
    THEN [ok |-> FALSE, err |-> "Other", entry |-> NoEntry]
    ELSE symlink_metadata(f, target_path)

deploy_source_check(f, source_path, fault) ==
    IF fault = "source_metadata"
    THEN [ok |-> FALSE, err |-> "Other", entry |-> NoEntry]
    ELSE symlink_metadata(f, source_path)

deploy_source_error(sm, source_path) ==
    IF sm.ok /\ sm.entry.kind # "file" THEN "SourceExistsButIsNotAFile"
    ELSE IF ~sm.ok THEN "Metadata"
    ELSE "None"

\* mutant: a hard link is made for Copy as well
deploy_materialize_link_for_copy(f, n, source_path, target_path, method, fault) ==
    IF fault = "unsupported" THEN IoErr("Unsupported", f, n)
    ELSE IF fault = "deploy" THEN IoErr("Other", f, n)
    ELSE IF method = "Symlink"
         THEN symlink(f, n, FALSE, relative_to(source_path, parent(target_path)),
                      target_path)
    ELSE hard_link(f, n, source_path, target_path)

\* mutant: the symbolic link holds the absolute path of the stored object
deploy_materialize_absolute(f, n, source_path, target_path, method, fault) ==
    IF fault = "unsupported" THEN IoErr("Unsupported", f, n)
    ELSE IF fault = "deploy" THEN IoErr("Other", f, n)
    ELSE IF method = "Copy" THEN copy(f, n, source_path, target_path)
    ELSE IF method = "Symlink"
         THEN symlink(f, n, TRUE, source_path, target_path)
    ELSE hard_link(f, n, source_path, target_path)

deploy_materialize(f, n, source_path, target_path, method, fault) ==
    IF fault = "unsupported" THEN IoErr("Unsupported", f, n)
    ELSE IF fault = "deploy" THEN IoErr("Other", f, n)
    ELSE IF method = "Copy" THEN copy(f, n, source_path, target_path)
    ELSE IF method = "Symlink"
         THEN symlink(f, n, FALSE, relative_to(source_path, parent(target_path)),
                      target_path)
    ELSE hard_link(f, n, source_path, target_path)

\* mutant: the stored object is looked up before the target
deploy_checks_source_first(f, archive, deploy, hash, rel, fault) ==
    IF deploy = None THEN "IsBareArchive"
    ELSE
    LET root == deploy[1]
        target_path == to_logical_path(rel, root)
    IN
    IF ~deploy_confined(target_path, root) THEN "InvalidPath"
    ELSE
    LET source_path == get_path_of_stored_file(archive, hash)
        sm == deploy_source_check(f, source_path, fault)
    IN
    IF deploy_source_error(sm, source_path) # "None"
    THEN deploy_source_error(sm, source_path)
    ELSE
    LET tm == deploy_target_check(f, target_path, fault) IN
    IF tm.ok THEN "AlreadyExists"
    ELSE IF tm.err # "NotFound" THEN "Metadata"
    ELSE "None"

\* the checks made before anything is written: the first that fails, or "None"
deploy_checks(f, archive, deploy, hash, rel, fault) ==
    IF deploy = None THEN "IsBareArchive"
    ELSE
    LET root == deploy[1]
        target_path == to_logical_path(rel, root)
    IN
    IF ~deploy_confined(target_path, root) THEN "InvalidPath"
    ELSE
    LET tm == deploy_target_check(f, target_path, fault) IN
    IF tm.ok THEN "AlreadyExists"
    ELSE IF tm.err # "NotFound" THEN "Metadata"
    ELSE
    LET source_path == get_path_of_stored_file(archive, hash)
        sm == deploy_source_check(f, source_path, fault)
    IN
    deploy_source_error(sm, source_path)

\* mutant: the parent directories are created before the checks are made
deploy_file_dirs_first(f, n, archive, deploy, hash, rel, method, fault) ==
    LET c == deploy_checks(f, archive, deploy, hash, rel, fault) IN
    IF c \in {"IsBareArchive", "InvalidPath"} THEN DeployResult(c, f, n)
    ELSE
    LET target_path == to_logical_path(rel, deploy[1])
        source_path == get_path_of_stored_file(archive, hash)
        d == IF fault = "create_dir_all" THEN IoErr("Other", f, n)
             ELSE create_dir_all(f, n, parent(target_path))
    IN
    IF c # "None" THEN DeployResult(c, d.fs, d.inodes)
    ELSE IF ~d.ok THEN DeployResult("CreateParentDir", d.fs, d.inodes)
    ELSE
    LET r == deploy_materialize(d.fs, d.inodes, source_path, target_path,
                                method, fault)
    IN
    IF r.ok THEN DeployResult("Ok", r.fs, r.inodes)
    ELSE IF r.err = "Unsupported" THEN DeployResult("NotSupported", r.fs, r.inodes)
    ELSE DeployResult("Deploy", r.fs, r.inodes)

deploy_file(f, n, archive, deploy, hash, rel, method, fault) ==
    LET c == deploy_checks(f, archive, deploy, hash, rel, fault) IN
    IF c # "None" THEN DeployResult(c, f, n)
    ELSE
    LET target_path == to_logical_path(rel, deploy[1])
        source_path == get_path_of_stored_file(archive, hash)
        d == IF fault = "create_dir_all" THEN IoErr("Other", f, n)
             ELSE create_dir_all(f, n, parent(target_path))
    IN
    IF ~d.ok THEN DeployResult("CreateParentDir", d.fs, d.inodes)
    ELSE
    LET r == deploy_materialize(d.fs, d.inodes, source_path, target_path,
                                method, fault)
    IN
    IF r.ok THEN DeployResult("Ok", r.fs, r.inodes)
    ELSE IF r.err = "Unsupported" THEN DeployResult("NotSupported", r.fs, r.inodes)
    ELSE DeployResult("Deploy", r.fs, r.inodes)

(***************************************************************************)
(* Concurrent callers.  No lock is taken by store_file or deploy_file, so   *)
(* calls made by several threads or processes interleave at their file     *)
(* system calls.  A call in progress is a record: the arguments, the       *)
(* position pc (the file system call made next), the local hash, and the   *)
(* result once pc is "done".  alone is the result the same call gives when *)
(* it runs without the other on the disk both found when they began.       *)
(***************************************************************************)
Procs == {1, 2}

Idle ==
    [op |-> "none", pc |-> "idle", path |-> <<>>, method |-> "", hash |-> NoHash,
     rel |-> <<>>, res |-> "", alone |-> ""]

StoreCall(path, method, alone) ==
    [op |-> "store_file", pc |-> "metadata", path |-> path, method |-> method,
     hash |-> NoHash, rel |-> <<>>, res |-> "", alone |-> alone]

DeployCall(hash, rel, method, alone) ==
    [op |-> "deploy_file", pc |-> "target", path |-> <<>>, method |-> method,
     hash |-> hash, rel |-> rel, res |-> "", alone |-> alone]

Return(pr, r) == [pr EXCEPT !.pc = "done", !.res = r]
Goto(pr, pc) == [pr EXCEPT !.pc = pc]
StepResult(f, n, pr) == [fs |-> f, inodes |-> n, proc |-> pr]

\* one file system call of store_file
store_file_step(f, n, archive, pr) ==
    LET target_path == get_path_of_stored_file(archive, pr.hash) IN
    CASE pr.pc = "metadata" ->
           LET lmd == symlink_metadata(f, pr.path)
               md == metadata(f, pr.path)
           IN  IF ~lmd.ok THEN StepResult(f, n, Return(pr, "Metadata"))
               ELSE IF lmd.entry.kind = "dir"
                    THEN StepResult(f, n, Return(pr, "IsDirectory"))
               ELSE IF lmd.entry.kind = "symlink" /\ pr.method = "Move"
                    THEN StepResult(f, n, Return(pr, "IsSymlink"))
               ELSE IF lmd.entry.kind = "symlink" /\ ~md.ok
                    THEN StepResult(f, n, Return(pr, "Metadata"))
               ELSE IF lmd.entry.kind = "symlink" /\ md.entry.kind = "dir"
                    THEN StepResult(f, n, Return(pr, "IsDirectory"))
               ELSE StepResult(f, n, Goto(pr, "hash"))
      [] pr.pc = "hash" ->
           LET md == metadata(f, pr.path) IN
           IF ~md.ok THEN StepResult(f, n, Return(pr, "Open"))
           ELSE IF md.entry.kind # "file" THEN StepResult(f, n, Return(pr, "Read"))
           ELSE StepResult(f, n, [pr EXCEPT !.pc = "exists",
                                            !.hash = blake3(read(f, n, pr.path))])
      [] pr.pc = "exists" ->
           IF store_exists_check(f, target_path)
           THEN StepResult(f, n, Return(pr, "AlreadyExists"))
           ELSE StepResult(f, n, Goto(pr, "create_dir_all"))
      [] pr.pc = "create_dir_all" ->
           LET d == create_dir_all(f, n, parent(target_path)) IN
           IF ~d.ok THEN StepResult(d.fs, d.inodes, Return(pr, "CreateParentDir"))
           ELSE StepResult(d.fs, d.inodes, Goto(pr, "store"))
      [] pr.pc = "store" ->
           LET s == store_materialize(f, n, pr.path, target_path, pr.method, "none")
           IN  IF ~s.ok THEN StepResult(s.fs, s.inodes, Return(pr, "Store"))
               ELSE StepResult(s.fs, s.inodes, Goto(pr, "harden"))
      [] pr.pc = "harden" ->
           StepResult(f, store_harden(f, n, target_path, "none"), Return(pr, "Ok"))

\* one file system call of deploy_file
deploy_file_step(f, n, archive, deploy, pr) ==
    LET root == deploy[1]
        target_path == to_logical_path(pr.rel, root)
        source_path == get_path_of_stored_file(archive, pr.hash)
    IN
    CASE pr.pc = "target" ->
           IF deploy = None THEN StepResult(f, n, Return(pr, "IsBareArchive"))
           ELSE IF ~deploy_confined(target_path, root)
                THEN StepResult(f, n, Return(pr, "InvalidPath"))
           ELSE LET tm == deploy_target_check(f, target_path, "none") IN
                IF tm.ok THEN StepResult(f, n, Return(pr, "AlreadyExists"))
                ELSE IF tm.err # "NotFound"
                     THEN StepResult(f, n, Return(pr, "Metadata"))
                ELSE StepResult(f, n, Goto(pr, "source"))
      [] pr.pc = "source" ->
           LET sm == deploy_source_check(f, source_path, "none") IN
           IF deploy_source_error(sm, source_path) # "None"
           THEN StepResult(f, n, Return(pr, deploy_source_error(sm, source_path)))
           ELSE StepResult(f, n, Goto(pr, "create_dir_all"))
      [] pr.pc = "create_dir_all" ->
           LET d == create_dir_all(f, n, parent(target_path)) IN
           IF ~d.ok THEN StepResult(d.fs, d.inodes, Return(pr, "CreateParentDir"))
           ELSE StepResult(d.fs, d.inodes, Goto(pr, "deploy"))
      [] pr.pc = "deploy" ->
           LET r == deploy_materialize(f, n, source_path, target_path,
                                       pr.method, "none")
           IN  IF r.ok THEN StepResult(r.fs, r.inodes, Return(pr, "Ok"))
               ELSE IF r.err = "Unsupported"
                    THEN StepResult(r.fs, r.inodes, Return(pr, "NotSupported"))
               ELSE StepResult(r.fs, r.inodes, Return(pr, "Deploy"))

(***************************************************************************)
(* The environment: the directory the archive is opened in (/tmp/x), and   *)
(* what the callers find on disk.  /tmp holds two files with TEST_DATA, a   *)
(* directory, a link to the directory and one to the first file, and       *)
(* nothing at "nx"; /tmp/x holds a dangling link.                          *)
(***************************************************************************)
TmpDir == <<<<"t", "m", "p">>>>
RootDir == push(TmpDir, <<"x">>)

SrcFile == push(TmpDir, <<"f">>)
SrcDir == push(TmpDir, <<"d">>)
SrcLinkToDir == push(TmpDir, <<"l", "d">>)
SrcLinkToFile == push(TmpDir, <<"l", "f">>)
SrcMissing == push(TmpDir, <<"n", "x">>)
SrcTwin == push(TmpDir, <<"g">>)
Dangling == push(RootDir, <<"d", "l">>)

Sources == {SrcFile, SrcDir, SrcLinkToDir, SrcLinkToFile, SrcMissing}

StoreMethods == {"Copy", "Move"}
DeployMethods == {"Copy", "Symlink", "Hardlink"}
Hashes == {TEST_DATA_HASH, ZERO_HASH}

RECURSIVE join(_)
join(comps) ==
    IF comps = <<>> THEN <<>>
    ELSE IF Len(comps) = 1 THEN comps[1]
    ELSE comps[1] \o <<SEP>> \o join(Tail(comps))

PathEmpty == <<>>
PathDot == <<".">>
PathA == <<"a">>
PathABC == <<"a", "/", "b", "/", "c">>
PathAD == <<"a", "/", "d">>
PathAbsolute == <<"/", "e", "t", "c", "/", "p", "a", "s", "s", "w", "d">>
PathInside == <<"a", "/", "b", "/", ".", ".", "/", ".", ".", "/", "e", "s", "c", "a", "p", "e">>
PathEscape == <<"t", "e", "s", "t", "/", ".", ".", "/", ".", ".", "/", "i", "m", "p", "o", "r", "t", "a", "n", "t", "-", "f", "i", "l", "e">>
PathDangling == <<"d", "l">>
\* the sharded store path of ZERO_HASH, relative to the deploy root
PathIntoStore ==
    join(get_path_of_stored_file(<<MEDIA_ARCHIVE_DIRECTORY>>, ZERO_HASH))

RelPaths ==
    {PathEmpty, PathDot, PathA, PathABC, PathAD, PathAbsolute, PathInside,
     PathEscape, PathDangling, PathIntoStore}

InitFs ==
    (<<>> :> Dir) @@ (TmpDir :> Dir) @@ (SrcDir :> Dir)
    @@ (SrcFile :> File(1))
    @@ (SrcTwin :> File(2))
    @@ (SrcLinkToDir :> Link(TRUE, SrcDir))
    @@ (SrcLinkToFile :> Link(TRUE, SrcFile))

InitInodes ==
    <<[data |-> TEST_DATA, readonly |-> FALSE],
      [data |-> TEST_DATA, readonly |-> FALSE]>>

NoCall ==
    [op |-> "open", src |-> <<>>, hash |-> NoHash, rel |-> <<>>, method |-> "",
     fault |-> "none", res |-> "Ok", rhash |-> NoHash]

\* open(/tmp/x, disk_structure), then the dangling link put in /tmp/x
Init ==
    \E disk_structure \in {"Bare", "Deployable"} :
        /\ archive_path = open_archive_path(RootDir, disk_structure)
        /\ deploy_path = open_deploy_path(RootDir, disk_structure)
        /\ fs = create_dir_all(InitFs, InitInodes,
                               open_archive_path(RootDir, disk_structure)).fs
                @@ (Dangling :> Link(FALSE, <<<<"n", "o">>>>))
        /\ inodes = InitInodes
        /\ last = NoCall
        /\ ncalls = 0
        /\ procs = [p \in Procs |-> Idle]

StoreFile(path, method, fault) ==
    /\ ncalls < MaxCalls
    /\ \E r \in {store_file(fs, inodes, archive_path, path, method, fault)} :
       /\ fs' = r.fs
       /\ inodes' = r.inodes
       /\ last' = [op |-> "store_file", src |-> path, hash |-> NoHash,
                   rel |-> <<>>, method |-> method, fault |-> fault,
                   res |-> r.res, rhash |-> r.hash]
    /\ ncalls' = ncalls + 1
    /\ UNCHANGED <<archive_path, deploy_path, procs>>

DeployFile(hash, rel, method, fault) ==
    /\ ncalls < MaxCalls
    /\ \E r \in {deploy_file(fs, inodes, archive_path, deploy_path, hash, rel,
                            method, fault)} :
       /\ fs' = r.fs
       /\ inodes' = r.inodes
       /\ last' = [op |-> "deploy_file", src |-> <<>>, hash |-> hash, rel |-> rel,
                   method |-> method, fault |-> fault, res |-> r.res,
                   rhash |-> NoHash]
    /\ ncalls' = ncalls + 1
    /\ UNCHANGED <<archive_path, deploy_path, procs>>

\* Every file system call succeeds unless the state of the disk makes it fail.
Next ==
    \/ \E path \in Sources, method \in StoreMethods :
           StoreFile(path, method, "none")
    \/ \E hash \in Hashes, rel \in RelPaths, method \in DeployMethods :
           DeployFile(hash, rel, method, "none")

Spec == Init /\ [][Next]_vars

\* Any one file system call of a call may fail with an I/O error.
StoreFaults ==
    {"none", "open", "read", "create_dir_all", "store", "set_permissions"}
DeployFaults ==
    {"none", "target_metadata", "source_metadata", "create_dir_all",
     "unsupported", "deploy"}
IoSources == {SrcFile, SrcDir, SrcLinkToFile}
IoHashes == {TEST_DATA_HASH, ZERO_HASH}
IoRelPaths == {PathABC, PathDot}

NextIO ==
    \/ \E path \in IoSources, method \in StoreMethods, fault \in StoreFaults :
           StoreFile(path, method, fault)
    \/ \E hash \in IoHashes, rel \in IoRelPaths, method \in DeployMethods,
          fault \in DeployFaults :
           DeployFile(hash, rel, method, fault)

SpecIO == Init /\ [][NextIO]_vars

\* Two callers of a Deployable archive, each making one call, concurrently;
\* before they begin, files may have been stored one after the other, with
\* or without the stored object being made read-only.
ConcSources == {SrcFile, SrcTwin}
ConcFaults == {"none", "set_permissions"}
ConcDeploys ==
    {<<TEST_DATA_HASH, PathA>>, <<TEST_DATA_HASH, PathAD>>,
     <<TEST_DATA_HASH, PathABC>>, <<TEST_DATA_HASH, PathIntoStore>>,
     <<ZERO_HASH, PathA>>}

AllIdle == \A p \in Procs : procs[p].pc = "idle"

SetupStore(path, method, fault) ==
    /\ AllIdle
    /\ ncalls + Cardinality(Procs) < MaxCalls
    /\ StoreFile(path, method, fault)

StoreAlone(path, method) ==
    StoreCall(path, method,
              store_file(fs, inodes, archive_path, path, method, "none").res)

DeployAlone(hash, rel, method) ==
    DeployCall(hash, rel, method,
               deploy_file(fs, inodes, archive_path, deploy_path, hash, rel,
                           method, "none").res)

Fork(c1, c2) ==
    /\ AllIdle
    /\ ncalls + Cardinality(Procs) <= MaxCalls
    /\ procs' = (1 :> c1) @@ (2 :> c2)
    /\ ncalls' = ncalls + Cardinality(Procs)
    /\ last' = [NoCall EXCEPT !.op = "concurrent calls"]
    /\ UNCHANGED <<fs, inodes, archive_path, deploy_path>>

ForkStores(p1, m1, p2, m2) == Fork(StoreAlone(p1, m1), StoreAlone(p2, m2))

ForkDeploys(h1, r1, m1, h2, r2, m2) ==
    Fork(DeployAlone(h1, r1, m1), DeployAlone(h2, r2, m2))

ProcStep(p) ==
    /\ procs[p].pc \notin {"idle", "done"}
    /\ \E r \in {IF procs[p].op = "store_file"
                  THEN store_file_step(fs, inodes, archive_path, procs[p])
                  ELSE deploy_file_step(fs, inodes, archive_path, deploy_path,
                                        procs[p])} :
       /\ fs' = r.fs
       /\ inodes' = r.inodes
       /\ procs' = [procs EXCEPT ![p] = r.proc]
    /\ UNCHANGED <<archive_path, deploy_path, last, ncalls>>

NextConc ==
    \/ \E path \in ConcSources, method \in StoreMethods, fault \in ConcFaults :
           SetupStore(path, method, fault)
    \/ \E p1, p2 \in ConcSources, m1, m2 \in StoreMethods :
           ForkStores(p1, m1, p2, m2)
    \/ \E d1, d2 \in ConcDeploys, m1, m2 \in DeployMethods :
           ForkDeploys(d1[1], d1[2], m1, d2[1], d2[2], m2)
    \/ \E p \in Procs : ProcStep(p)

\* Calls of the functions that touch no file: the path of a stored object,
\* and the parsing of a hash text.
ByteValues == {0, 1, 10, 15, 16, 160, 171, 255}
PathHashes ==
    {TEST_DATA_HASH}
    \cup {[i \in 1..OUT_LEN |-> IF i = k THEN b ELSE 0] :
             k \in {1, 2, 3, OUT_LEN}, b \in ByteValues}

HashLens ==
    {0, 6, HASH_HEX_LEN - 1, HASH_HEX_LEN, HASH_HEX_LEN + 1,
     HASH_HEX_LEN + MaxExcess}
HashTexts ==
    {[i \in 1..len |-> IF i = pos THEN ch ELSE fill] :
        len \in HashLens, fill \in {"0", "a", "F"}, pos \in {1, HASH_HEX_LEN},
        ch \in {"0", "A", "g", "G", "E3"}}

PathOfStoredFile(hash) ==
    /\ last' = [NoCall EXCEPT !.op = "get_path_of_stored_file", !.hash = hash,
                              !.src = get_path_of_stored_file(archive_path, hash)]
    /\ UNCHANGED <<fs, inodes, archive_path, deploy_path, ncalls, procs>>

ParseHash(value) ==
    /\ \E r \in {from_str(value)} :
          last' = [NoCall EXCEPT !.op = "from_str", !.rel = value, !.res = r.res,
                                 !.hash = <<r.len>>, !.rhash = r.value]
    /\ UNCHANGED <<fs, inodes, archive_path, deploy_path, ncalls, procs>>

NextFn ==
    \/ \E hash \in PathHashes : PathOfStoredFile(hash)
    \/ \E value \in HashTexts : ParseHash(value)

SpecFn == Init /\ [][NextFn]_vars

InitConc == Init /\ deploy_path # None

SpecConc == InitConc /\ [][NextConc]_vars

(***************************************************************************)
(* Properties.                                                             *)
(***************************************************************************)
Deployable == deploy_path # None
Root == deploy_path[1]
StorePath(h) == get_path_of_stored_file(archive_path, h)
Target(rel) == to_logical_path(rel, Root)
Created == DOMAIN fs' \ DOMAIN fs
StrictlyBelow(q, dir) == starts_with(q, dir) /\ q # dir
IsRegularFile(f, p) ==
    symlink_metadata(f, p).ok /\ symlink_metadata(f, p).entry.kind = "file"
\* what a path names (no link followed) and the bytes read through it
Snapshot(f, n, p) ==
    [entry |-> symlink_metadata(f, p).entry, bytes |-> read(f, n, p)]
\* the source can be hashed by store_file(method): a regular file, or for
\* Copy a link to one
Storable(f, src, method) ==
    \/ IsRegularFile(f, src)
    \/ /\ symlink_metadata(f, src).ok
       /\ symlink_metadata(f, src).entry.kind = "symlink"
       /\ method = "Copy"
       /\ metadata(f, src).ok
       /\ metadata(f, src).entry.kind = "file"

\* C1 (as claimed): in a Deployable archive, every file at the sharded store
\* path of a hash h has bytes whose digest is h.
C1_StoredBytesMatchHash ==
    Deployable =>
        \A h \in Hashes :
            read(fs, inodes, StorePath(h)) # NoData
                => blake3(read(fs, inodes, StorePath(h))) = h

\* C2: a store_file call (Copy or Move) on a source that can be hashed, made
\* when something exists at the sharded store path of the digest h of its
\* bytes, fails with AlreadyExists(h) and changes nothing on disk (object and
\* source stay as they were); h is the hash a successful store of those bytes
\* returns.
C2_SecondStoreAlreadyExists ==
    [][(last'.op = "store_file" /\ Storable(fs, last'.src, last'.method))
        => LET h == blake3(read(fs, inodes, last'.src)) IN
           /\ (last'.res = "Ok" => last'.rhash = h)
           /\ (symlink_metadata(fs, StorePath(h)).ok
                 => (last'.res = "AlreadyExists" /\ last'.rhash = h
                      /\ fs' = fs /\ inodes' = inodes))]_vars

C2_Witness ==
    /\ last.op = "store_file"
    /\ last.method = "Move"
    /\ last.res = "AlreadyExists"
    /\ last.rhash = TEST_DATA_HASH
    /\ read(fs, inodes, last.src) = TEST_DATA
    /\ read(fs, inodes, StorePath(TEST_DATA_HASH)) = TEST_DATA

\* C3: store_file removes the source exactly when the method is Move and the
\* call returns Ok; in every other case (any failure of Move, any outcome of
\* Copy) a source that was there is still there, the same entry with the same
\* bytes.
C3_SourceRemovedIffMoveOk ==
    [][(last'.op = "store_file" /\ symlink_metadata(fs, last'.src).ok)
        => IF last'.method = "Move" /\ last'.res = "Ok"
           THEN ~symlink_metadata(fs', last'.src).ok
           ELSE Snapshot(fs', inodes', last'.src)
                    = Snapshot(fs, inodes, last'.src)]_vars

C3_Witness ==
    /\ last.op = "store_file"
    /\ last.method = "Move"
    /\ last.res = "Ok"
    /\ last.src = SrcFile
    /\ ~symlink_metadata(fs, SrcFile).ok
    /\ read(fs, inodes, StorePath(TEST_DATA_HASH)) = TEST_DATA

\* C4: every deploy_file call that returns Ok creates its target, and every
\* entry it creates (the target and the parent directories) is strictly below
\* the deploy root.
C4_DeployedBelowRoot ==
    [][(last'.op = "deploy_file" /\ last'.res = "Ok")
        => (/\ Target(last'.rel) \in Created
            /\ \A q \in Created : StrictlyBelow(q, Root))]_vars

\* a deploy into a directory that an earlier deploy created
C4_Witness ==
    /\ last.op = "deploy_file"
    /\ last.res = "Ok"
    /\ last.rel = PathAD
    /\ IsRegularFile(fs, Target(PathABC))
    /\ symlink_metadata(fs, Target(PathAD)).ok

\* C5: in a Deployable archive deploy_file fails with InvalidPath, changing
\* nothing on disk, for every path that has no component other than ".",
\* and for every path whose lexical resolution is not below the deploy root.
OnlyCurDir(rel) == \A i \in DOMAIN components(rel) : components(rel)[i] = CurDir

C5_InvalidPathRejected ==
    [][(last'.op = "deploy_file" /\ Deployable
            /\ (OnlyCurDir(last'.rel) \/ ~starts_with(Target(last'.rel), Root)))
        => (last'.res = "InvalidPath" /\ fs' = fs /\ inodes' = inodes)]_vars

C5_Witness ==
    /\ last.op = "deploy_file"
    /\ last.rel = PathDot
    /\ last.res = "InvalidPath"
    /\ IsRegularFile(fs, StorePath(last.hash))

\* C6 (as claimed): deploy_file fails with InvalidPath when the deployment
\* path is absolute (its text begins with the separator).
IsAbsoluteText(rel) == rel # <<>> /\ rel[1] = SEP

C6_AbsoluteRejected ==
    (last.op = "deploy_file" /\ Deployable /\ IsAbsoluteText(last.rel))
        => last.res = "InvalidPath"

\* C7 (as claimed): deploy_file with "a/b/../../escape" fails with InvalidPath.
C7_InsideRejected ==
    (last.op = "deploy_file" /\ Deployable /\ last.rel = PathInside)
        => last.res = "InvalidPath"

\* C7 (amended): "a/b/../../escape" resolves to <deploy root>/escape, inside
\* the deploy root, so deploy_file never fails with InvalidPath for it; with a
\* stored hash and nothing at <deploy root>/escape it returns Ok and creates
\* that one entry.
EscapeComponent == <<"e", "s", "c", "a", "p", "e">>

C7_InsideAccepted ==
    [][(last'.op = "deploy_file" /\ Deployable /\ last'.rel = PathInside)
        => (/\ last'.res # "InvalidPath"
            /\ (IsRegularFile(fs, StorePath(last'.hash))
                  /\ ~symlink_metadata(fs, push(Root, EscapeComponent)).ok)
                => (last'.res = "Ok"
                     /\ Created = {push(Root, EscapeComponent)}))]_vars

C7_Witness ==
    /\ last.op = "deploy_file"
    /\ last.rel = PathInside
    /\ last.res = "Ok"
    /\ read(fs, inodes, push(Root, EscapeComponent)) = TEST_DATA

\* C8 (as claimed): no deploy_file call that returns Ok has its target at or
\* below the archive root <root>/.media-archive.
C8_NeverIntoArchive ==
    (last.op = "deploy_file" /\ last.res = "Ok")
        => ~starts_with(Target(last.rel), archive_path)

\* C9: a deploy_file call with a confined target at which anything exists
\* (looked up without following links) fails with AlreadyExists and changes
\* nothing on disk.
C9_NeverOverwrites ==
    [][(last'.op = "deploy_file" /\ Deployable
            /\ StrictlyBelow(Target(last'.rel), Root)
            /\ symlink_metadata(fs, Target(last'.rel)).ok)
        => (last'.res = "AlreadyExists" /\ fs' = fs /\ inodes' = inodes)]_vars

\* a second deploy to the path of a symbolic link made by an earlier deploy
C9_Witness ==
    /\ last.op = "deploy_file"
    /\ last.res = "AlreadyExists"
    /\ last.rel = PathABC
    /\ symlink_metadata(fs, Target(PathABC)).entry.kind = "symlink"

\* C10 (as claimed): a deploy_file call with a confined target, nothing at the
\* target and no object stored for the hash fails with NotFound.
C10_UnstoredIsNotFound ==
    (last.op = "deploy_file" /\ Deployable
        /\ StrictlyBelow(Target(last.rel), Root)
        /\ symlink_metadata(fs, Target(last.rel)).err = "NotFound"
        /\ symlink_metadata(fs, StorePath(last.hash)).err = "NotFound")
    => last.res = "NotFound"

\* What is at a physical path, and what is behind it when links are followed.
KindAt(f, p) == IF p \in DOMAIN f THEN f[p].kind ELSE "none"
Behind(f, p) ==
    LET w == resolve(f, p, TRUE) IN
    IF w.ok /\ w.path \in DOMAIN f THEN f[w.path] ELSE NoEntry
BytesBehind(f, n, p) ==
    IF Behind(f, p).kind = "file" THEN n[Behind(f, p).ino].data ELSE NoData
BareArchive == archive_path = open_archive_path(RootDir, "Bare")

\* C11: in an archive opened Bare, every deploy_file call (any hash, any
\* path, valid or not, any method) fails with IsBareArchive and changes nothing
\* on disk.
C11_BareArchiveRejects ==
    [][(last'.op = "deploy_file" /\ BareArchive)
        => (last'.res = "IsBareArchive" /\ fs' = fs /\ inodes' = inodes)]_vars

\* a deploy of a stored hash to an escaping path in a bare archive
C11_Witness ==
    /\ BareArchive
    /\ last.op = "deploy_file"
    /\ last.res = "IsBareArchive"
    /\ last.rel = PathEscape
    /\ last.method = "Hardlink"
    /\ KindAt(fs, StorePath(last.hash)) = "file"

\* C12 (as claimed): store_file on a symbolic link to a directory fails with
\* IsDirectory, with Copy and with Move.
C12_LinkToDirIsDirectory ==
    (last.op = "store_file" /\ KindAt(fs, last.src) = "symlink"
        /\ Behind(fs, last.src).kind = "dir")
    => last.res = "IsDirectory"

\* C12 (amended): store_file on a symbolic link to a directory fails with
\* IsDirectory when the method is Copy and with IsSymlink when it is Move
\* (the Move test on links comes first); either way nothing changes on disk.
C12_LinkToDirByMethod ==
    [][(last'.op = "store_file" /\ KindAt(fs, last'.src) = "symlink"
            /\ Behind(fs, last'.src).kind = "dir")
        => (/\ last'.res = (IF last'.method = "Copy" THEN "IsDirectory"
                                                     ELSE "IsSymlink")
            /\ fs' = fs /\ inodes' = inodes)]_vars

C12_Witness ==
    /\ last.op = "store_file"
    /\ last.src = SrcLinkToDir
    /\ last.method = "Move"
    /\ last.res = "IsSymlink"
    /\ Behind(fs, SrcLinkToDir).kind = "dir"

\* C13: store_file on a symbolic link to a regular file with bytes B: with
\* Move it fails with IsSymlink and changes nothing on disk (link, target and
\* store stay as they were); with Copy and no object yet at the store path of
\* the digest h of B it returns Ok(h), and the store path of h then holds a
\* regular file, not a link, with bytes B, while the link and its target are
\* unchanged (with an object already there it is AlreadyExists(h), as in C2).
C13_LinkToFile ==
    [][(last'.op = "store_file" /\ KindAt(fs, last'.src) = "symlink"
            /\ Behind(fs, last'.src).kind = "file")
        => LET B == BytesBehind(fs, inodes, last'.src)
               h == blake3(B)
           IN  IF last'.method = "Move"
               THEN last'.res = "IsSymlink" /\ fs' = fs /\ inodes' = inodes
               ELSE IF KindAt(fs, StorePath(h)) # "none"
               THEN last'.res = "AlreadyExists" /\ last'.rhash = h
                    /\ fs' = fs /\ inodes' = inodes
               ELSE /\ last'.res = "Ok"
                    /\ last'.rhash = h
                    /\ KindAt(fs', StorePath(h)) = "file"
                    /\ inodes'[fs'[StorePath(h)].ino].data = B
                    /\ fs'[last'.src] = fs[last'.src]
                    /\ Behind(fs', last'.src) = Behind(fs, last'.src)
                    /\ BytesBehind(fs', inodes', last'.src) = B]_vars

C13_Witness ==
    /\ last.op = "store_file"
    /\ last.src = SrcLinkToFile
    /\ last.method = "Copy"
    /\ last.res = "Ok"
    /\ KindAt(fs, SrcLinkToFile) = "symlink"
    /\ KindAt(fs, StorePath(TEST_DATA_HASH)) = "file"
    /\ fs[StorePath(TEST_DATA_HASH)].ino # Behind(fs, SrcLinkToFile).ino

\* C14 (as claimed): after a store_file call that returned Ok(h), the store
\* path of h holds a regular file whose bytes have digest h and which is
\* read-only.
C14_StoredReadOnly ==
    (last.op = "store_file" /\ last.res = "Ok")
    => (/\ KindAt(fs, StorePath(last.rhash)) = "file"
        /\ blake3(inodes[fs[StorePath(last.rhash)].ino].data) = last.rhash
        /\ inodes[fs[StorePath(last.rhash)].ino].readonly)

\* C14 (amended): when store_file (Copy or Move) returns Ok(h) for a source
\* with bytes B, h is the digest of B and the store path of h holds a regular
\* file, not a link, with bytes B; it is read-only unless marking it failed,
\* which the call reports only as a warning.
C14_StoredHardened ==
    [][(last'.op = "store_file" /\ last'.res = "Ok")
        => LET B == BytesBehind(fs, inodes, last'.src)
               sp == StorePath(last'.rhash)
           IN  /\ B # NoData
               /\ last'.rhash = blake3(B)
               /\ KindAt(fs', sp) = "file"
               /\ inodes'[fs'[sp].ino].data = B
               /\ (last'.fault # "set_permissions"
                     => inodes'[fs'[sp].ino].readonly)]_vars

C14_Witness ==
    /\ last.op = "store_file"
    /\ last.method = "Move"
    /\ last.fault = "none"
    /\ last.res = "Ok"
    /\ KindAt(fs, StorePath(last.rhash)) = "file"
    /\ inodes[fs[StorePath(last.rhash)].ino] = [data |-> TEST_DATA, readonly |-> TRUE]

Other(p) == 3 - p
BothStore == \A p \in Procs : procs[p].op = "store_file"
BothDeploy == \A p \in Procs : procs[p].op = "deploy_file"
BothDone == \A p \in Procs : procs[p].pc = "done"
\* the call found nothing at the store path when it made its existence check
PassedCheck(pr) == pr.pc = "done" /\ pr.res \in {"CreateParentDir", "Store", "Ok"}

\* C16 (as claimed): when two store_file calls with Copy on identical content
\* both pass the existence check (so neither had written when the other
\* checked), both return Ok and the store path holds exactly those bytes.
C16_CopyRaceBenign ==
    (/\ BothStore
     /\ \A p \in Procs : procs[p].method = "Copy" /\ PassedCheck(procs[p])
     /\ procs[1].hash = procs[2].hash)
    => (/\ \A p \in Procs : procs[p].res = "Ok"
        /\ blake3(BytesBehind(fs, inodes, StorePath(procs[1].hash)))
              = procs[1].hash)

\* C17 (as claimed): when a store_file call with Move makes its rename and the
\* object is at the store path by then (put there since the call's existence
\* check by the other caller's store of identical content), the call returns
\* a Store failure and the object is the one that was there.
C17_MoveRaceFails ==
    [][\A p \in Procs :
         (/\ BothStore
          /\ procs[p].method = "Move"
          /\ procs[p].pc = "store"
          /\ procs'[p].pc # "store"
          /\ procs[Other(p)].hash = procs[p].hash
          /\ KindAt(fs, StorePath(procs[p].hash)) = "file")
         => (/\ procs'[p].res = "Store"
             /\ fs'[StorePath(procs[p].hash)] = fs[StorePath(procs[p].hash)])]_vars

Unrelated(p) ==
    /\ ~starts_with(Target(procs[p].rel), Target(procs[Other(p)].rel))
    /\ ~starts_with(Target(procs[Other(p)].rel), Target(procs[p].rel))
    /\ ~starts_with(StorePath(procs[Other(p)].hash), Target(procs[p].rel))

NewRoot == push(TmpDir, <<"y">>)
Rebase(p) ==
    IF starts_with(p, Root) THEN NewRoot \o SubSeq(p, Len(Root) + 1, Len(p))
    ELSE p
Moved(f) ==
    [q \in {Rebase(p) : p \in DOMAIN f} |->
        f[CHOOSE p \in DOMAIN f : Rebase(p) = q]]

\* C20: a deploy_file call with Symlink that returns Ok leaves at the target
\* a symbolic link whose text is relative, not absolute; resolved from the
\* directory of the target the text is the store path of the hash, the link
\* reads as the stored object, and after the whole root directory is moved
\* elsewhere the link still resolves to the object, at its new place.
C20_RelativeLink ==
    [][(last'.op = "deploy_file" /\ last'.method = "Symlink" /\ last'.res = "Ok")
        => LET t == Target(last'.rel)
               sp == StorePath(last'.hash)
           IN  /\ KindAt(fs', t) = "symlink"
               /\ ~fs'[t].abs
               /\ logical(parent(t), fs'[t].link) = sp
               /\ resolve(fs', t, TRUE).path = sp
               /\ KindAt(fs', sp) = "file"
               /\ resolve(Moved(fs'), Rebase(t), TRUE).path = Rebase(sp)
               /\ KindAt(Moved(fs'), Rebase(sp)) = "file"
               /\ BytesBehind(Moved(fs'), inodes', Rebase(t))
                     = inodes'[fs'[sp].ino].data]_vars

C20_Witness ==
    /\ last.op = "deploy_file"
    /\ last.method = "Symlink"
    /\ last.res = "Ok"
    /\ last.rel = PathABC
    /\ fs[Target(PathABC)].link[1] = ParentDir
    /\ BytesBehind(Moved(fs), inodes, Rebase(Target(PathABC))) = TEST_DATA
    /\ NewRoot \notin DOMAIN fs

\* C21: a deploy_file call that returns Ok leaves at the target, for Hardlink,
\* a regular file (not a symbolic link) that is the same file as the stored
\* object (same inode), and for Copy a regular file with the bytes of the
\* stored object that is another file (another inode).
C21_FileIdentity ==
    [][(last'.op = "deploy_file" /\ last'.res = "Ok"
            /\ last'.method \in {"Hardlink", "Copy"})
        => LET t == Target(last'.rel)
               sp == StorePath(last'.hash)
           IN  /\ KindAt(fs', t) = "file"
               /\ KindAt(fs', sp) = "file"
               /\ (last'.method = "Hardlink" => fs'[t].ino = fs'[sp].ino)
               /\ (last'.method = "Copy"
                     => (/\ fs'[t].ino # fs'[sp].ino
                         /\ inodes'[fs'[t].ino].data
                               = inodes'[fs'[sp].ino].data))]_vars

\* a Hardlink deploy next to an entry that is another file than the object
C21_Witness ==
    /\ last.op = "deploy_file"
    /\ last.method = "Hardlink"
    /\ last.res = "Ok"
    /\ last.rel = PathABC
    /\ fs[Target(PathABC)].ino = fs[StorePath(last.hash)].ino
    /\ KindAt(fs, Target(PathAD)) = "file"
    /\ fs[Target(PathAD)].ino # fs[StorePath(last.hash)].ino

\* C22: for every hash h, with x its 64 lowercase hex digits, the path of the
\* stored object is <archive root>/store/x[0..2]/x[2..4]/x, the file name being
\* the whole of x; and no other hash has the same path.
TEST_DATA_HASH_HEX ==
    <<
      "6", "a", "9", "5", "3", "5", "8", "1", "d", "6", "0", "d", "b", "e",
      "b", "c", "9", "7", "4", "9", "b", "5", "6", "d", "2", "3", "8", "3",
      "2", "7", "7", "f", "b", "0", "2", "b", "5", "8", "d", "2", "6", "0",
      "b", "4", "c", "c", "f", "6", "f", "1", "1", "9", "1", "0", "8", "f",
      "a", "0", "f", "1", "d", "4", "e", "f"
    >>

C22_ShardedPath ==
    (last.op = "get_path_of_stored_file")
    => LET x == to_hex(last.hash) IN
       /\ Len(x) = 64
       /\ \A i \in 1..64 : \E j \in 1..16 : x[i] = HexDigits[j]
       /\ last.src = archive_path \o <<STORE_DIRECTORY, SubSeq(x, 1, 2),
                                        SubSeq(x, 3, 4), x>>
       /\ \A h2 \in PathHashes :
             h2 # last.hash
               => get_path_of_stored_file(archive_path, h2) # last.src

C22_Witness ==
    /\ last.op = "get_path_of_stored_file"
    /\ last.hash = TEST_DATA_HASH
    /\ Len(last.src) = Len(archive_path) + 4
    /\ last.src[Len(last.src)] = TEST_DATA_HASH_HEX
    /\ last.src[Len(last.src) - 2] = <<"6", "a">>
    /\ last.src[Len(last.src) - 1] = <<"9", "5">>

HasNonHex(text) == \E i \in DOMAIN text : ~is_ascii_hexdigit(text[i])

C24_HardeningNotFatal ==
    [][(last'.op = "store_file" /\ last'.fault = "set_permissions")
        => LET r == store_file(fs, inodes, archive_path, last'.src,
                               last'.method, "none")
               B == BytesBehind(fs, inodes, last'.src)
           IN  /\ last'.res = r.res
               /\ last'.rhash = r.hash
               /\ fs' = r.fs
               /\ (Storable(fs, last'.src, last'.method)
                      /\ KindAt(fs, StorePath(blake3(B))) = "none")
                    => (/\ last'.res = "Ok"
                        /\ last'.rhash = blake3(B)
                        /\ KindAt(fs', StorePath(blake3(B))) = "file"
                        /\ inodes'[fs'[StorePath(blake3(B))].ino].data = B)]_vars

C24_Witness ==
    /\ last.op = "store_file"
    /\ last.fault = "set_permissions"
    /\ last.method = "Move"
    /\ last.res = "Ok"
    /\ KindAt(fs, StorePath(last.rhash)) = "file"
    /\ ~inodes[fs[StorePath(last.rhash)].ino].readonly

\* C25: the result of deploy_file is that of the first check that fails, in
\* the order: no deploy root (IsBareArchive), target not confined
\* (InvalidPath), lookup of the target (AlreadyExists, or Metadata for an
\* error other than not-found), lookup of the stored object
\* (SourceExistsButIsNotAFile, Metadata), creation of the parent directories
\* (CreateParentDir), then one attempt to copy or link (NotSupported, Deploy),
\* after whose failure nothing is at the target; else it is Ok.
FirstFailure(f, hash, rel, fault) ==
    LET tm == symlink_metadata(f, Target(rel))
        sm == symlink_metadata(f, StorePath(hash))
    IN  IF ~Deployable THEN "IsBareArchive"
        ELSE IF ~StrictlyBelow(Target(rel), Root) THEN "InvalidPath"
        ELSE IF fault = "target_metadata" THEN "Metadata"
        ELSE IF tm.ok THEN "AlreadyExists"
        ELSE IF tm.err # "NotFound" THEN "Metadata"
        ELSE IF fault = "source_metadata" THEN "Metadata"
        ELSE IF sm.ok /\ sm.entry.kind # "file" THEN "SourceExistsButIsNotAFile"
        ELSE IF ~sm.ok THEN "Metadata"
        ELSE IF fault = "create_dir_all" THEN "CreateParentDir"
        ELSE IF fault = "unsupported" THEN "NotSupported"
        ELSE IF fault = "deploy" THEN "Deploy"
        ELSE "Ok"

C25_CheckOrder ==
    [][(last'.op = "deploy_file")
        => (/\ last'.res = FirstFailure(fs, last'.hash, last'.rel, last'.fault)
            /\ (Deployable /\ last'.res \in {"NotSupported", "Deploy"})
                  => KindAt(fs', Target(last'.rel)) = "none"
            /\ (Deployable /\ last'.res = "Ok")
                  => KindAt(fs', Target(last'.rel)) # "none")]_vars

\* an existing target and a hash that is not stored: AlreadyExists
C25_Witness ==
    /\ Deployable
    /\ last.op = "deploy_file"
    /\ last.fault = "none"
    /\ last.hash = ZERO_HASH
    /\ last.rel = PathABC
    /\ KindAt(fs, StorePath(ZERO_HASH)) = "none"
    /\ KindAt(fs, Target(PathABC)) # "none"
    /\ last.res = "AlreadyExists"

\* C26: a deploy_file call that fails with IsBareArchive, InvalidPath,
\* AlreadyExists, SourceExistsButIsNotAFile or Metadata (for the target or for
\* the stored object) leaves every entry and every file as it was: no parent
\* directory of the target is created, and neither the store nor a deployed
\* entry changes.
C26_FailedDeployNoEffect ==
    [][(last'.op = "deploy_file"
            /\ last'.res \in {"IsBareArchive", "InvalidPath", "AlreadyExists",
                              "SourceExistsButIsNotAFile", "Metadata"})
        => (fs' = fs /\ inodes' = inodes)]_vars

\* a deploy of a hash that is not stored, two directories below the root,
\* neither of which is there afterwards
C26_Witness ==
    /\ last.op = "deploy_file"
    /\ last.res = "Metadata"
    /\ last.rel = PathABC
    /\ last.hash = ZERO_HASH
    /\ KindAt(fs, Target(PathA)) = "none"
    /\ KindAt(fs, StorePath(TEST_DATA_HASH)) = "file"

====
